---- MODULE Spec2Model ----
(***************************************************************************)
(* Model of the GSM scanning/aggregation engine (src/gsm_scanner.py):       *)
(* class GSMScanner, its classifier, sweep, aggregation and the            *)
(* continuous-scan lifecycle (start_scanning / scan_continuous /           *)
(* stop_scanning).                                                         *)
(*                                                                         *)
(* Units.  Python floats are modelled by exact integers:                   *)
(*   - frequencies are in units of 0.1 MHz (935.0 MHz = 9350), so the      *)
(*     Hz fields of a capture row divided by 1e6 become row fields in      *)
(*     0.1 MHz and int(freq * 10) is the frequency itself;                 *)
(*   - powers are whole dB; an average is the exact fraction <<sum, n>>    *)
(*     reduced to lowest terms.                                            *)
(* Floating-point rounding is outside the model.                           *)
(***************************************************************************)
EXTENDS Integers, Sequences, FiniteSets, TLC

(***************************************************************************)
(* Bounds of the model.                                                    *)
(***************************************************************************)
MaxThreads == 2        \* Thread objects one controller may create
MaxInterval == 2       \* largest interval (seconds) passed to start_scanning
MaxAfterStop == 2      \* saturation of the callbacks-after-stop counter
FreqMargin == 10       \* how far outside the bands (0.1 MHz) frequencies are drawn
MaxRecs == 3           \* longest list of records passed to aggregate_by_provider
MaxBins == 3           \* most power fields in a generated capture row
MaxBandWidth == 4      \* width (0.1 MHz) to which the detector's bands are cut
MaxStep == 3           \* largest step_size (0.1 MHz) passed to scan_band
MaxHistory == 3        \* length to which the GUI's history deques (maxlen=50) are cut
MaxObjects == 4        \* mapping objects allocated in one run of the object-level model

(***************************************************************************)
(* Program constants.                                                      *)
(***************************************************************************)
NoiseFloor == -60      \* "if power > -60"
MinFields == 7
SilentPower == -120    \* "return -120" of scan_frequency, "power_dbm = -120"         \* "if len(parts) < 7: continue"

None == "None"
Unknown == "Unknown"

\* Variant: Vodafone's 900 MHz interval starts at 940.0 MHz, inside Orange's.
ROMANIAN_PROVIDERS_Overlapping ==
    << [provider |-> "Orange",   ranges |-> << <<9350, 9410>>, <<18050, 18250>> >>],
       [provider |-> "Vodafone", ranges |-> << <<9400, 9480>>, <<18250, 18500>> >>],
       [provider |-> "Telekom",  ranges |-> << <<9480, 9540>>, <<18500, 18700>> >>],
       [provider |-> "Digi",     ranges |-> << <<9540, 9600>>, <<18700, 18800>> >>] >>

\* ROMANIAN_PROVIDERS, in declaration (dict insertion) order; MHz * 10.
ROMANIAN_PROVIDERS ==
    << [provider |-> "Orange",   ranges |-> << <<9350, 9410>>, <<18050, 18250>> >>],
       [provider |-> "Vodafone", ranges |-> << <<9410, 9480>>, <<18250, 18500>> >>],
       [provider |-> "Telekom",  ranges |-> << <<9480, 9540>>, <<18500, 18700>> >>],
       [provider |-> "Digi",     ranges |-> << <<9540, 9600>>, <<18700, 18800>> >>] >>

Providers == { ROMANIAN_PROVIDERS[i].provider : i \in DOMAIN ROMANIAN_PROVIDERS }

\* Variant: the upper end of an interval is excluded.
InRangeHalfOpen(freq, r) == r[1] <= freq /\ freq < r[2]

\* "if start <= freq <= end"
InRange(freq, r) == r[1] <= freq /\ freq <= r[2]

\* the inner loop "for start, end in ranges"
MatchesAny(freq, ranges) == \E j \in DOMAIN ranges : InRange(freq, ranges[j])

\* Variant: the loop keeps going after a match, so the last match wins.
RECURSIVE ProviderFromLast(_, _)
ProviderFromLast(freq, i) ==
    IF i > Len(ROMANIAN_PROVIDERS) THEN Unknown
    ELSE IF ProviderFromLast(freq, i + 1) # Unknown
         THEN ProviderFromLast(freq, i + 1)
         ELSE IF MatchesAny(freq, ROMANIAN_PROVIDERS[i].ranges)
              THEN ROMANIAN_PROVIDERS[i].provider
              ELSE Unknown

\* The outer loop of freq_to_provider from table position i on.
RECURSIVE ProviderFrom(_, _)
ProviderFrom(freq, i) ==
    IF i > Len(ROMANIAN_PROVIDERS) THEN Unknown
    ELSE IF MatchesAny(freq, ROMANIAN_PROVIDERS[i].ranges)
         THEN ROMANIAN_PROVIDERS[i].provider
         ELSE ProviderFrom(freq, i + 1)

freq_to_provider(freq) == ProviderFrom(freq, 1)

(***************************************************************************)
(* Capture rows.  A row is the list `parts` of line.strip().split(','):    *)
(* each field is a numeric string Num(v), a non-numeric string Txt, or the *)
(* empty string Empty.                                                     *)
(***************************************************************************)
Num(v) == [k |-> "num", v |-> v]
Txt == [k |-> "txt", v |-> 0]
Empty == [k |-> "empty", v |-> 0]

\* float(x) succeeds exactly on numeric strings (ValueError otherwise).
IsFloat(x) == x.k = "num"

\* "parts[6:]"
PowerFields(parts) == SubSeq(parts, MinFields, Len(parts))

\* "if p" of the list comprehension: empty strings are dropped.
NonEmptyFields(fields) == SelectSeq(fields, LAMBDA p : p.k # "empty")

\* "[float(p) for p in parts[6:] if p]" raises ValueError on a non-numeric field.
PowersRaise(parts) ==
    \E j \in DOMAIN NonEmptyFields(PowerFields(parts)) :
        ~IsFloat(NonEmptyFields(PowerFields(parts))[j])

\* power_values, when no float() raised
PowerValues(parts) ==
    [ j \in DOMAIN NonEmptyFields(PowerFields(parts)) |->
        NonEmptyFields(PowerFields(parts))[j].v ]

\* GSMSignal(arfcn=int(freq * 10), frequency=freq, power=power, provider=provider)
GSMSignal(freq, power) ==
    [arfcn |-> freq, frequency |-> freq, power |-> power,
     provider |-> freq_to_provider(freq)]

\* Variant: a bin exactly at the noise floor is kept.
AboveNoiseInclusive(power) == power >= NoiseFloor

\* "if power > -60"
AboveNoise(power) == power > NoiseFloor

\* Variant: bin i is placed at freq_low + (i + 1) * freq_step.
RowSignalsShifted(parts) ==
    IF Len(parts) < MinFields THEN << >>
    ELSE IF ~IsFloat(parts[3]) \/ ~IsFloat(parts[4]) \/ ~IsFloat(parts[5])
              \/ PowersRaise(parts)
         THEN << >>
         ELSE LET pv == PowerValues(parts)
                  bins == [ j \in DOMAIN pv |->
                              GSMSignal(parts[3].v + j * parts[5].v, pv[j]) ]
              IN  SelectSeq(bins, LAMBDA s : AboveNoise(s.power))

\* Variant: float(p) is applied bin by bin inside the loop, so the bins
\* before the first non-numeric power field are appended.
RowSignalsPartial(parts) ==
    IF Len(parts) < MinFields THEN << >>
    ELSE IF ~IsFloat(parts[3]) \/ ~IsFloat(parts[4]) \/ ~IsFloat(parts[5])
         THEN << >>
         ELSE LET fields == NonEmptyFields(PowerFields(parts))
                  n == CHOOSE m \in 0 .. Len(fields) :
                         /\ \A j \in 1 .. m : IsFloat(fields[j])
                         /\ m = Len(fields) \/ ~IsFloat(fields[m + 1])
                  bins == [ j \in 1 .. n |->
                              GSMSignal(parts[3].v + (j - 1) * parts[5].v, fields[j].v) ]
              IN  SelectSeq(bins, LAMBDA s : AboveNoise(s.power))

\* Body of "for line in f" for one line: the signals the line appends.
RowSignals(parts) ==
    IF Len(parts) < MinFields THEN << >>
    ELSE IF ~IsFloat(parts[3]) \/ ~IsFloat(parts[4]) \/ ~IsFloat(parts[5])
              \/ PowersRaise(parts)
         THEN << >>
         ELSE LET pv == PowerValues(parts)
                  bins == [ j \in DOMAIN pv |->
                              GSMSignal(parts[3].v + (j - 1) * parts[5].v, pv[j]) ]
              IN  SelectSeq(bins, LAMBDA s : AboveNoise(s.power))

\* "for line in f": the signals of all rows, in file order.
RECURSIVE ParseCapture(_)
ParseCapture(rows) ==
    IF rows = << >> THEN << >>
    ELSE RowSignals(Head(rows)) \o ParseCapture(Tail(rows))

(***************************************************************************)
(* aggregate_by_provider                                                   *)
(***************************************************************************)
RECURSIVE Gcd(_, _)
Gcd(a, b) == IF b = 0 THEN a ELSE Gcd(b, a % b)

Abs(x) == IF x < 0 THEN -x ELSE x

\* provider_power[p] / provider_count[p] as an exact fraction in lowest terms
Average(total, count) ==
    LET g == Gcd(Abs(total), count)
    IN  << total \div g, count \div g >>

RECURSIVE ProviderCount(_, _)

\* Variant: "=" in place of "+=", so the last record of a provider wins.
RECURSIVE ProviderPowerLast(_, _)
ProviderPowerLast(sigs, p) ==
    IF sigs = << >> THEN 0
    ELSE IF ProviderCount(Tail(sigs), p) > 0 THEN ProviderPowerLast(Tail(sigs), p)
         ELSE IF Head(sigs).provider = p THEN Head(sigs).power ELSE 0

\* the accumulation loop "for signal in signals", restricted to one provider
RECURSIVE ProviderPower(_, _)
ProviderPower(sigs, p) ==
    IF sigs = << >> THEN 0
    ELSE (IF Head(sigs).provider = p THEN Head(sigs).power ELSE 0)
         + ProviderPower(Tail(sigs), p)

\* Variant: every record is counted, whatever its provider.
ProviderCountAll(sigs, p) == Len(sigs)

ProviderCount(sigs, p) ==
    IF sigs = << >> THEN 0
    ELSE (IF Head(sigs).provider = p THEN 1 ELSE 0) + ProviderCount(Tail(sigs), p)

\* keys of provider_power: the labels that occur in signals
Labels(sigs) == { sigs[j].provider : j \in DOMAIN sigs }

aggregate_by_provider(sigs) ==
    [ p \in { q \in Labels(sigs) : ProviderCount(sigs, q) > 0 } |->
        Average(ProviderPower(sigs, p), ProviderCount(sigs, p)) ]

\* "{}": the empty mapping
EmptyMap == [ p \in {} |-> << 0, 1 >> ]

(***************************************************************************)
(* The controller: one GSMScanner instance, the threads that call its      *)
(* lifecycle API, and the scan loop threads it creates.                    *)
(***************************************************************************)
VARIABLES
    scanning,      \* self.scanning
    scan_thread,   \* self.scan_thread: 0 is None, else the id of a Thread object
    signals,       \* self.signals
    nthreads,      \* Thread objects created so far (ids 1..nthreads)
    th,            \* per Thread object: life cycle, position in scan_continuous, locals
    cl,            \* per calling thread: position in start_scanning / stop_scanning
    callers,       \* the threads that call the API (fixed during a behaviour)
    inputs,        \* the <<callback, interval>> arguments they pass (fixed likewise)
    stopCalled,    \* history: stop_scanning has been entered
    lastCall,      \* history: how the most recently completed API call ended
    afterStop,     \* history: callback invocations since a stop_scanning call
                   \*   returned with no start_scanning completed since (saturating)
    fn             \* a call of a pure function: [op, arg, res]

ctlVars == << scanning, scan_thread, signals, nthreads, th, cl, callers, inputs,
              stopCalled, lastCall, afterStop >>

vars == << scanning, scan_thread, signals, nthreads, th, cl, callers, inputs,
           stopCalled, lastCall, afterStop, fn >>

Threads == 1 .. MaxThreads
AllCallers == {"c1", "c2"}
Callbacks == {"cbA", "cbB"}
Intervals == 0 .. MaxInterval

\* Contents of the capture file rtl_power leaves behind on exit code 0.
RowScenario ==
    << Txt, Txt, Num(9350), Num(9354), Num(2), Num(3), Num(-70), Num(-50), Num(-55) >>
RowBad == << Txt, Txt, Num(9350), Num(9354), Txt, Num(1), Num(-40) >>
Captures == { << >>, << RowScenario >>, << RowBad, RowScenario >> }

\* A Thread object that has not been created yet.
Unborn ==
    [st |-> "unborn", pc |-> "entry", cb |-> None, interval |-> 0, i |-> 0,
     s900 |-> << >>, all |-> << >>, tmp |-> "none", ncb |-> 0, arg |-> << >>,
     failed |-> FALSE]

\* A Thread object whose run() has ended (its locals are gone).
Dead == [Unborn EXCEPT !.st = "dead", !.pc = "done"]

\* A calling thread outside any API call.  idle0 records, during a
\* stop_scanning call, whether no loop thread was alive when it was entered.
IdleCaller == [pc |-> "idle", cb |-> None, interval |-> 0, jt |-> 0, idle0 |-> FALSE]

StartOutcomes == {"start_noop", "start_launched", "start_error"}
StopOutcomes == {"stop_idle", "stop_noblock", "stop_joined", "stop_timeout"}

StopReturned == lastCall \in StopOutcomes

NoCall == [op |-> "none", arg |-> 0, res |-> None]

Min(a, b) == IF a < b THEN a ELSE b

\* Thread.is_alive()
IsAlive(t) == th[t].st = "alive"

Alive == { t \in Threads : IsAlive(t) }

\* GSMScanner.__init__
InitScanner ==
    /\ scanning = FALSE
    /\ scan_thread = 0
    /\ signals = EmptyMap
    /\ nthreads = 0
    /\ th = [t \in Threads |-> Unborn]
    /\ cl = [c \in AllCallers |-> IdleCaller]
    /\ stopCalled = FALSE
    /\ lastCall = "none"
    /\ afterStop = 0
    /\ fn = NoCall

\* All API calls come from one thread, so calls never overlap; any
\* callback (or none) and any interval may be passed.
Init ==
    /\ InitScanner
    /\ callers = {"c1"}
    /\ inputs = (Callbacks \cup {None}) \X Intervals

\* API calls come from two threads and may overlap.
InitRace ==
    /\ InitScanner
    /\ callers = AllCallers
    /\ inputs = {<< "cbA", 1 >>}

(***************************************************************************)
(* start_scanning(callback, interval)                                      *)
(***************************************************************************)
InStart(c) == cl[c].pc \in {"start_check", "start_set", "start_create", "start_run"}

\* The call is entered.  (Thread ids are bounded: a call is entered only
\* while a Thread object is left for it.)
StartCall(c, cb, interval) ==
    /\ cl[c].pc = "idle"
    /\ nthreads + Cardinality({d \in callers : InStart(d)}) < MaxThreads
    /\ cl' = [cl EXCEPT ![c] = [IdleCaller EXCEPT !.pc = "start_check", !.cb = cb,
                                                  !.interval = interval]]
    /\ UNCHANGED << scanning, scan_thread, signals, nthreads, th, callers, inputs,
                    stopCalled, lastCall, afterStop, fn >>

\* Variant: the guard tests the flag instead of the thread.
StartGuardOnFlag == scanning

\* "self.scan_thread and self.scan_thread.is_alive()"
StartGuard == scan_thread # 0 /\ IsAlive(scan_thread)

\* "if self.scan_thread and self.scan_thread.is_alive(): return"
StartCheck(c) ==
    /\ cl[c].pc = "start_check"
    /\ IF StartGuard
       THEN /\ cl' = [cl EXCEPT ![c] = IdleCaller]
            /\ lastCall' = "start_noop"
            /\ afterStop' = 0
       ELSE /\ cl' = [cl EXCEPT ![c].pc = "start_set"]
            /\ UNCHANGED << lastCall, afterStop >>
    /\ UNCHANGED << scanning, scan_thread, signals, nthreads, th, callers, inputs,
                    stopCalled, fn >>

\* "self.scanning = True"
StartSet(c) ==
    /\ cl[c].pc = "start_set"
    /\ scanning' = TRUE
    /\ cl' = [cl EXCEPT ![c].pc = "start_create"]
    /\ UNCHANGED << scan_thread, signals, nthreads, th, callers, inputs,
                    stopCalled, lastCall, afterStop, fn >>

\* "self.scan_thread = threading.Thread(target=self.scan_continuous,
\*                                      args=(callback, interval), daemon=True)"
StartCreate(c) ==
    /\ cl[c].pc = "start_create"
    /\ nthreads' = nthreads + 1
    /\ scan_thread' = nthreads + 1
    /\ th' = [th EXCEPT ![nthreads + 1] =
                 [Unborn EXCEPT !.st = "new", !.cb = cl[c].cb,
                                !.interval = cl[c].interval]]
    /\ cl' = [cl EXCEPT ![c].pc = "start_run"]
    /\ UNCHANGED << scanning, signals, callers, inputs,
                    stopCalled, lastCall, afterStop, fn >>

\* "self.scan_thread.start()": starts whatever Thread self.scan_thread names
\* now; Thread.start() on a thread already started raises RuntimeError.
StartRun(c) ==
    /\ cl[c].pc = "start_run"
    /\ IF th[scan_thread].st = "new"
       THEN /\ th' = [th EXCEPT ![scan_thread].st = "alive"]
            /\ lastCall' = "start_launched"
       ELSE /\ th' = th
            /\ lastCall' = "start_error"
    /\ cl' = [cl EXCEPT ![c] = IdleCaller]
    /\ afterStop' = 0
    /\ UNCHANGED << scanning, scan_thread, signals, nthreads, callers, inputs,
                    stopCalled, fn >>

(***************************************************************************)
(* stop_scanning()                                                         *)
(***************************************************************************)
\* Variant: stop_scanning also resets the stored aggregate.
StopCallClearing(c) ==
    /\ cl[c].pc = "idle"
    /\ scanning' = FALSE
    /\ stopCalled' = TRUE
    /\ signals' = EmptyMap
    /\ cl' = [cl EXCEPT ![c] = [IdleCaller EXCEPT !.pc = "stop_join",
                                                  !.idle0 = (Alive = {})]]
    /\ UNCHANGED << scan_thread, nthreads, th, callers, inputs,
                    lastCall, afterStop, fn >>

\* "self.scanning = False"
StopCall(c) ==
    /\ cl[c].pc = "idle"
    /\ scanning' = FALSE
    /\ stopCalled' = TRUE
    /\ cl' = [cl EXCEPT ![c] = [IdleCaller EXCEPT !.pc = "stop_join",
                                                  !.idle0 = (Alive = {})]]
    /\ UNCHANGED << scan_thread, signals, nthreads, th, callers, inputs,
                    lastCall, afterStop, fn >>

\* join() has nothing to wait for: no Thread object, or one that is not
\* running (finished; a Thread not yet started makes join() raise).
JoinReturnsAtOnce == scan_thread = 0 \/ ~IsAlive(scan_thread)

\* "if self.scan_thread: self.scan_thread.join(timeout=5)", up to blocking
StopJoin(c) ==
    /\ cl[c].pc = "stop_join"
    /\ IF JoinReturnsAtOnce
       THEN /\ cl' = [cl EXCEPT ![c] = IdleCaller]
            /\ lastCall' = IF cl[c].idle0 THEN "stop_idle" ELSE "stop_noblock"
            /\ afterStop' = 0
       ELSE /\ cl' = [cl EXCEPT ![c].pc = "joining", ![c].jt = scan_thread]
            /\ UNCHANGED << lastCall, afterStop >>
    /\ UNCHANGED << scanning, scan_thread, signals, nthreads, th, callers, inputs,
                    stopCalled, fn >>

\* join() returns because the loop thread has exited.
JoinDone(c) ==
    /\ cl[c].pc = "joining"
    /\ ~IsAlive(cl[c].jt)
    /\ cl' = [cl EXCEPT ![c] = IdleCaller]
    /\ lastCall' = "stop_joined"
    /\ afterStop' = 0
    /\ UNCHANGED << scanning, scan_thread, signals, nthreads, th, callers, inputs,
                    stopCalled, fn >>

\* Variant: join() without a timeout, which returns only once the thread ended.
JoinWithoutTimeout(c) ==
    /\ cl[c].pc = "joining"
    /\ ~IsAlive(cl[c].jt)
    /\ cl' = [cl EXCEPT ![c] = IdleCaller]
    /\ lastCall' = "stop_joined"
    /\ afterStop' = 0
    /\ UNCHANGED << scanning, scan_thread, signals, nthreads, th, callers, inputs,
                    stopCalled, fn >>

\* join(timeout=5) returns with the loop thread still running.
JoinTimeout(c) ==
    /\ cl[c].pc = "joining"
    /\ IsAlive(cl[c].jt)
    /\ cl' = [cl EXCEPT ![c] = IdleCaller]
    /\ lastCall' = "stop_timeout"
    /\ afterStop' = 0
    /\ UNCHANGED << scanning, scan_thread, signals, nthreads, th, callers, inputs,
                    stopCalled, fn >>

(***************************************************************************)
(* scan_continuous(callback, interval), run by a loop thread t             *)
(***************************************************************************)
Running(t, pcs) == IsAlive(t) /\ th[t].pc \in pcs

\* "self.scanning = True", the first statement of the loop thread
LoopEntry(t) ==
    /\ Running(t, {"entry"})
    /\ scanning' = TRUE
    /\ th' = [th EXCEPT ![t].pc = "while"]
    /\ UNCHANGED << scan_thread, signals, nthreads, cl, callers, inputs,
                    stopCalled, lastCall, afterStop, fn >>

\* "while self.scanning:": a new cycle begins, or the function returns and
\* the thread ends.
LoopTest(t) ==
    /\ Running(t, {"while"})
    /\ th' = IF scanning
             THEN [th EXCEPT ![t].pc = "scan900", ![t].s900 = << >>, ![t].all = << >>,
                             ![t].ncb = 0, ![t].arg = << >>, ![t].failed = FALSE,
                             ![t].tmp = "none"]
             ELSE [th EXCEPT ![t] = Dead]
    /\ UNCHANGED << scanning, scan_thread, signals, nthreads, cl, callers, inputs,
                    stopCalled, lastCall, afterStop, fn >>

\* Variant: a sweep that returns with the flag cleared abandons the cycle.
AfterSweepCancelling(t, result, ok, tmp) ==
    IF ~scanning
    THEN [th EXCEPT ![t].pc = "while", ![t].s900 = << >>, ![t].tmp = tmp,
                    ![t].failed = th[t].failed \/ ~ok]
    ELSE IF th[t].pc \in {"scan900", "run900"}
    THEN [th EXCEPT ![t].pc = "scan1800", ![t].s900 = result, ![t].tmp = tmp,
                    ![t].failed = th[t].failed \/ ~ok]
    ELSE [th EXCEPT ![t].pc = "aggregate", ![t].all = th[t].s900 \o result,
                    ![t].s900 = << >>, ![t].tmp = tmp,
                    ![t].failed = th[t].failed \/ ~ok]

\* Where the loop continues once the sweep of a band has returned `result`:
\* "signals_900 = self.scan_gsm900()", then "signals_1800 = self.scan_gsm1800()"
\* and "all_signals = signals_900 + signals_1800".
AfterSweep(t, result, ok, tmp) ==
    IF th[t].pc \in {"scan900", "run900"}
    THEN [th EXCEPT ![t].pc = "scan1800", ![t].s900 = result, ![t].tmp = tmp,
                    ![t].failed = th[t].failed \/ ~ok]
    ELSE [th EXCEPT ![t].pc = "aggregate", ![t].all = th[t].s900 \o result,
                    ![t].s900 = << >>, ![t].tmp = tmp,
                    ![t].failed = th[t].failed \/ ~ok]

\* scan_with_rtl_power up to subprocess.run: the temporary file is created
\* (tmp_file bound) and rtl_power is launched; or NamedTemporaryFile raises,
\* "except Exception" finds no tmp_file in locals() and the sweep returns [].
SweepBegin(t) ==
    /\ Running(t, {"scan900", "scan1800"})
    /\ \E created \in BOOLEAN :
          th' = IF created
                THEN [th EXCEPT ![t].pc = IF th[t].pc = "scan900" THEN "run900"
                                          ELSE "run1800",
                                ![t].tmp = "exists"]
                ELSE AfterSweep(t, << >>, FALSE, "none")
    /\ UNCHANGED << scanning, scan_thread, signals, nthreads, cl, callers, inputs,
                    stopCalled, lastCall, afterStop, fn >>

SweepOutcomes == {"ok", "nonzero", "timeout", "notfound", "error"}

\* What the exit path of scan_with_rtl_power does to the temporary file.
TmpAfter(outcome) ==
    CASE outcome = "ok"       -> "deleted"   \* os.unlink(tmp_file) after the parse
      [] outcome = "nonzero"  -> "exists"    \* "return signals" inside the try
      [] outcome = "timeout"  -> "deleted"   \* except subprocess.TimeoutExpired
      [] outcome = "notfound" -> "exists"    \* except FileNotFoundError: print only
      [] outcome = "error"    -> "deleted"   \* except Exception

\* Variant: the exit code of the capture tool is not looked at.
SweepResultIgnoringExit(outcome, capture, k) ==
    CASE outcome \in {"ok", "nonzero"} -> ParseCapture(capture)
      [] outcome = "error"             -> ParseCapture(SubSeq(capture, 1, k))
      [] OTHER                         -> << >>

\* The signals scan_with_rtl_power returns: the parse of the capture on
\* exit code 0; nothing when the tool failed; the rows parsed before the
\* exception when reading the file raised after `k` rows.
SweepResult(outcome, capture, k) ==
    CASE outcome = "ok"    -> ParseCapture(capture)
      [] outcome = "error" -> ParseCapture(SubSeq(capture, 1, k))
      [] OTHER             -> << >>

\* scan_with_rtl_power from the return of subprocess.run to its own return.
SweepEnd(t) ==
    /\ Running(t, {"run900", "run1800"})
    /\ \E outcome \in SweepOutcomes, capture \in Captures :
         \E k \in 0 .. Len(capture) :
            th' = AfterSweep(t, SweepResult(outcome, capture, k), outcome = "ok",
                             TmpAfter(outcome))
    /\ UNCHANGED << scanning, scan_thread, signals, nthreads, cl, callers, inputs,
                    stopCalled, lastCall, afterStop, fn >>

\* "self.signals = self.aggregate_by_provider(all_signals)"
Aggregate(t) ==
    /\ Running(t, {"aggregate"})
    /\ signals' = aggregate_by_provider(th[t].all)
    /\ th' = [th EXCEPT ![t].pc = "callback"]
    /\ UNCHANGED << scanning, scan_thread, nthreads, cl, callers, inputs,
                    stopCalled, lastCall, afterStop, fn >>

\* "if callback:"
CallbackGiven(t) == th[t].cb # None

\* "if callback: callback(self.signals)": the callback returns, or raises
\* and the exception leaves scan_continuous (nothing catches it).
Callback(t) ==
    /\ Running(t, {"callback"})
    /\ IF CallbackGiven(t)
       THEN /\ \E raises \in BOOLEAN :
                 th' = IF raises
                       THEN [th EXCEPT ![t] = Dead]
                       ELSE [th EXCEPT ![t].pc = "wait", ![t].i = 0,
                                       ![t].arg = << signals >>,
                                       ![t].ncb = th[t].ncb + 1]
            /\ afterStop' = IF StopReturned
                            THEN Min(afterStop + 1, MaxAfterStop) ELSE afterStop
       ELSE /\ th' = [th EXCEPT ![t].pc = "wait", ![t].i = 0]
            /\ UNCHANGED afterStop
    /\ UNCHANGED << scanning, scan_thread, signals, nthreads, cl, callers, inputs,
                    stopCalled, lastCall, fn >>

\* Variant: the wait loop does not look at the flag.
WaitCheckIgnoringFlag(t) ==
    /\ Running(t, {"wait"})
    /\ th' = IF th[t].i < th[t].interval
             THEN [th EXCEPT ![t].pc = "sleep"]
             ELSE [th EXCEPT ![t].pc = "while", ![t].i = 0]
    /\ UNCHANGED << scanning, scan_thread, signals, nthreads, cl, callers, inputs,
                    stopCalled, lastCall, afterStop, fn >>

\* "for _ in range(interval): if not self.scanning: break"
WaitCheck(t) ==
    /\ Running(t, {"wait"})
    /\ th' = IF th[t].i < th[t].interval /\ scanning
             THEN [th EXCEPT ![t].pc = "sleep"]
             ELSE [th EXCEPT ![t].pc = "while", ![t].i = 0]
    /\ UNCHANGED << scanning, scan_thread, signals, nthreads, cl, callers, inputs,
                    stopCalled, lastCall, afterStop, fn >>

\* "time.sleep(1)"
Sleep(t) ==
    /\ Running(t, {"sleep"})
    /\ th' = [th EXCEPT ![t].pc = "wait", ![t].i = th[t].i + 1]
    /\ UNCHANGED << scanning, scan_thread, signals, nthreads, cl, callers, inputs,
                    stopCalled, lastCall, afterStop, fn >>

Next ==
    \/ \E c \in callers, a \in inputs : StartCall(c, a[1], a[2])
    \/ \E c \in callers : StartCheck(c)
    \/ \E c \in callers : StartSet(c)
    \/ \E c \in callers : StartCreate(c)
    \/ \E c \in callers : StartRun(c)
    \/ \E c \in callers : StopCall(c)
    \/ \E c \in callers : StopJoin(c)
    \/ \E c \in callers : JoinDone(c)
    \/ \E c \in callers : JoinTimeout(c)
    \/ \E t \in Threads : LoopEntry(t)
    \/ \E t \in Threads : LoopTest(t)
    \/ \E t \in Threads : SweepBegin(t)
    \/ \E t \in Threads : SweepEnd(t)
    \/ \E t \in Threads : Aggregate(t)
    \/ \E t \in Threads : Callback(t)
    \/ \E t \in Threads : WaitCheck(t)
    \/ \E t \in Threads : Sleep(t)

Spec == Init /\ [][Next]_vars

RaceSpec == InitRace /\ [][Next]_vars

(***************************************************************************)
(* Scheduling.  A call that has been entered keeps executing: the calling  *)
(* thread is never suspended for good, and join(timeout=5) returns when    *)
(* the thread ends or the five seconds are over.  A started loop thread    *)
(* keeps executing too; every sweep returns (subprocess.run has            *)
(* timeout=30) and the callback returns or raises.  Nothing obliges a      *)
(* caller to enter a call.                                                 *)
(***************************************************************************)
\* The steps of a stop_scanning call after "self.scanning = False".
StopStep(c) == StopJoin(c) \/ JoinDone(c) \/ JoinTimeout(c)

\* The steps of a start_scanning call after its entry.
StartStep(c) == StartCheck(c) \/ StartSet(c) \/ StartCreate(c) \/ StartRun(c)

\* The steps of scan_continuous in loop thread t.
LoopStep(t) ==
    \/ LoopEntry(t) \/ LoopTest(t) \/ SweepBegin(t) \/ SweepEnd(t)
    \/ Aggregate(t) \/ Callback(t) \/ WaitCheck(t) \/ Sleep(t)

\* Only the calling thread is scheduled; a loop thread may stall for ever.
StopFairSpec ==
    Init /\ [][Next]_vars /\ \A c \in AllCallers : WF_vars(StopStep(c))

\* Calling threads and loop threads are all scheduled.
LoopFairSpec ==
    /\ Init /\ [][Next]_vars
    /\ \A c \in AllCallers : WF_vars(StopStep(c)) /\ WF_vars(StartStep(c))
    /\ \A t \in Threads : WF_vars(LoopStep(t))

(***************************************************************************)
(* Calls of freq_to_provider on frequencies in and around both bands.      *)
(***************************************************************************)
Freqs == (9350 - FreqMargin .. 9600 + FreqMargin)
           \cup (18050 - FreqMargin .. 18800 + FreqMargin)

InitClassify ==
    /\ InitScanner
    /\ callers = {}
    /\ inputs = {}

Classify(freq) ==
    /\ fn' = [op |-> "freq_to_provider", arg |-> freq, res |-> freq_to_provider(freq)]
    /\ UNCHANGED ctlVars

NextClassify == \E freq \in Freqs : Classify(freq)

ClassifySpec == InitClassify /\ [][NextClassify]_vars

(***************************************************************************)
(* Calls of aggregate_by_provider on lists of records.                     *)
(***************************************************************************)
\* The scanner as constructed, with nobody calling its lifecycle API.
InitNoCallers ==
    /\ scanning = FALSE
    /\ scan_thread = 0
    /\ signals = EmptyMap
    /\ nthreads = 0
    /\ th = [t \in Threads |-> Unborn]
    /\ cl = [c \in AllCallers |-> IdleCaller]
    /\ stopCalled = FALSE
    /\ lastCall = "none"
    /\ afterStop = 0
    /\ callers = {}
    /\ inputs = {}

\* Records of Orange (935.2 MHz), Vodafone (945.0 MHz) and "Unknown" (900.0 MHz).
SampleSignals == { GSMSignal(f, p) : f \in {9352, 9450, 9000}, p \in {-50, -55, -41} }

SignalLists == UNION { [1 .. n -> SampleSignals] : n \in 0 .. MaxRecs }

InitAggregate ==
    /\ InitNoCallers
    /\ fn \in { [op |-> "aggregate_by_provider", arg |-> s, res |-> EmptyMap,
                 done |-> FALSE] : s \in SignalLists }

AggregateCall ==
    /\ fn.op = "aggregate_by_provider"
    /\ ~fn.done
    /\ fn' = [fn EXCEPT !.res = aggregate_by_provider(fn.arg), !.done = TRUE]
    /\ UNCHANGED ctlVars

NextAggregate == AggregateCall

AggregateSpec == InitAggregate /\ [][NextAggregate]_vars

(***************************************************************************)
(* Calls of scan_with_rtl_power on generated capture files, followed by    *)
(* the aggregation of what the sweep returned.                             *)
(***************************************************************************)
\* The exception raised inside the try block, per outcome of the sweep.
ExceptionOf(outcome) ==
    CASE outcome = "timeout"  -> "TimeoutExpired"
      [] outcome = "notfound" -> "FileNotFoundError"
      [] outcome = "error"    -> "Exception"
      [] OTHER                -> None

\* The except clauses of scan_with_rtl_power.
Handled == {"TimeoutExpired", "FileNotFoundError", "Exception"}

\* Whether the call ends by raising to its caller.
SweepRaises(outcome) == ExceptionOf(outcome) \notin Handled \cup {None}

\* Power columns: below, at and above the noise floor, empty, non-numeric.
BinFields == { Num(-61), Num(-60), Num(-59), Empty, Txt }

PowerLists == UNION { [1 .. n -> BinFields] : n \in 0 .. MaxBins }

\* Rows "date, time, 935.0 MHz, 935.4 MHz, step, samples, dB ..." whose
\* step column is 0.2 MHz or not a number.
SampleRows ==
    { << Txt, Txt, Num(9350), Num(9354), st, Num(3) >> \o pl :
        st \in {Num(2), Txt}, pl \in PowerLists }

ScanCaptures ==
    {<< >>, << RowScenario >>} \cup { << r >> : r \in SampleRows }
            \cup { << RowScenario, r >> : r \in SampleRows }
            \cup { << r, RowScenario >> : r \in SampleRows }

\* One sweep about to run: its outcome, the file the tool wrote, and (when
\* reading fails part-way) the number of rows read before the failure.
ScanInputs ==
    { [outcome |-> o, capture |-> c, k |-> k] :
        o \in SweepOutcomes, c \in ScanCaptures, k \in 0 .. 2 }

InitScan ==
    /\ InitNoCallers
    /\ fn \in { [op |-> "scan_with_rtl_power", outcome |-> a.outcome,
                 capture |-> a.capture, k |-> a.k, res |-> << >>,
                 tmp |-> "none", raised |-> FALSE, done |-> FALSE,
                 agg |-> EmptyMap, aggdone |-> FALSE] :
                 a \in { b \in ScanInputs :
                           /\ b.k <= Len(b.capture)
                           /\ b.outcome # "error" => b.k = Len(b.capture) } }

ScanCall ==
    /\ fn.op = "scan_with_rtl_power"
    /\ ~fn.done
    /\ fn' = [fn EXCEPT !.res = SweepResult(fn.outcome, fn.capture, fn.k),
                        !.tmp = TmpAfter(fn.outcome),
                        !.raised = SweepRaises(fn.outcome),
                        !.done = TRUE]
    /\ UNCHANGED ctlVars

\* "provider_signals = self.aggregate_by_provider(all_signals)"
ScanAggregate ==
    /\ fn.op = "scan_with_rtl_power"
    /\ fn.done
    /\ ~fn.raised
    /\ ~fn.aggdone
    /\ fn' = [fn EXCEPT !.agg = aggregate_by_provider(fn.res), !.aggdone = TRUE]
    /\ UNCHANGED ctlVars

NextScan == ScanCall \/ ScanAggregate

ScanSpec == InitScan /\ [][NextScan]_vars

(***************************************************************************)
(* The mapping objects of the scanner: which dict object self.signals      *)
(* refers to, which object each loop builds and passes to its callback,    *)
(* and which object get_latest_signals hands out.  Objects are numbered;   *)
(* object 0 is the {} of __init__.  The content of an object is the set of *)
(* its keys: "avg" for keys written by aggregate_by_provider, "x" for a    *)
(* key written by a client into a mapping it was given.  Sweeps and waits  *)
(* touch no mapping and are left out.  The state is kept in fn.            *)
(***************************************************************************)
\* The live loops of a run: the one loop of sequential use, or the two
\* loops that overlapping start_scanning calls leave alive.
LiveLoops == { n \in Threads : n <= 2 }

InitMappings ==
    /\ InitNoCallers
    /\ fn \in { [op |-> "mappings", n |-> n, next |-> 1, heap |-> << {} >>,
                 sig |-> 0, loc |-> [l \in Threads |-> 0],
                 pc |-> [l \in Threads |-> "create"],
                 cyc |-> [l \in Threads |-> 1],
                 passed |-> {}, last |-> << >>, stored |-> << >>,
                 touched |-> {}, got |-> << >>, gotval |-> {}] : n \in LiveLoops }

\* The content of object o (object o is stored at position o + 1).
Content(o) == fn.heap[o + 1]

\* The objects that have been passed to a callback.
PassedObjects == { a.obj : a \in fn.passed }

\* Variant: the aggregate is written into the dict self.signals refers to.
MapCreateReusing(l) ==
    /\ fn.op = "mappings" /\ l <= fn.n /\ fn.pc[l] = "create"
    /\ fn' = [fn EXCEPT !.heap = [fn.heap EXCEPT ![fn.sig + 1] = {}],
                        !.loc = [fn.loc EXCEPT ![l] = fn.sig],
                        !.touched = fn.touched \cup ({fn.sig} \cap PassedObjects),
                        !.pc = [fn.pc EXCEPT ![l] = "fill"]]
    /\ UNCHANGED ctlVars

\* "result = {}" of aggregate_by_provider: a new dict object.
MapCreate(l) ==
    /\ fn.op = "mappings" /\ l <= fn.n /\ fn.pc[l] = "create"
    /\ fn.next <= MaxObjects
    /\ fn' = [fn EXCEPT !.heap = Append(fn.heap, {}),
                        !.loc = [fn.loc EXCEPT ![l] = fn.next],
                        !.next = fn.next + 1,
                        !.pc = [fn.pc EXCEPT ![l] = "fill"]]
    /\ UNCHANGED ctlVars

\* "result[provider] = avg_power" for the providers with records (none when
\* the sweeps returned nothing), up to "return result".
MapFill(l) ==
    /\ fn.op = "mappings" /\ l <= fn.n /\ fn.pc[l] = "fill"
    /\ \E records \in BOOLEAN :
         fn' = IF records
               THEN [fn EXCEPT !.heap = [fn.heap EXCEPT ![fn.loc[l] + 1] = @ \cup {"avg"}],
                               !.touched = fn.touched \cup ({fn.loc[l]} \cap PassedObjects),
                               !.pc = [fn.pc EXCEPT ![l] = "assign"]]
               ELSE [fn EXCEPT !.pc = [fn.pc EXCEPT ![l] = "assign"]]
    /\ UNCHANGED ctlVars

\* "self.signals = self.aggregate_by_provider(all_signals)"
MapAssign(l) ==
    /\ fn.op = "mappings" /\ l <= fn.n /\ fn.pc[l] = "assign"
    /\ fn' = [fn EXCEPT !.sig = fn.loc[l], !.stored = << fn.loc[l] >>,
                        !.pc = [fn.pc EXCEPT ![l] = "callback"]]
    /\ UNCHANGED ctlVars

\* "callback(self.signals)", and on to the next cycle of loop l.
MapCallback(l) ==
    /\ fn.op = "mappings" /\ l <= fn.n /\ fn.pc[l] = "callback"
    /\ fn' = [fn EXCEPT !.passed = fn.passed
                                     \cup {[loop |-> l, cyc |-> fn.cyc[l], obj |-> fn.sig]},
                        !.last = << fn.sig >>,
                        !.cyc = [fn.cyc EXCEPT ![l] = fn.cyc[l] + 1],
                        !.pc = [fn.pc EXCEPT ![l] = "create"]]
    /\ UNCHANGED ctlVars

\* Variant: get_latest_signals returns self.signals itself.
GetLatestNoCopy ==
    /\ fn.op = "mappings"
    /\ fn' = [fn EXCEPT !.got = << fn.sig >>, !.gotval = Content(fn.sig)]
    /\ UNCHANGED ctlVars

\* "return self.signals.copy()": a new dict object with the same content.
GetLatest ==
    /\ fn.op = "mappings"
    /\ fn.next <= MaxObjects
    /\ fn' = [fn EXCEPT !.heap = Append(fn.heap, Content(fn.sig)),
                        !.next = fn.next + 1,
                        !.got = << fn.next >>, !.gotval = Content(fn.sig)]
    /\ UNCHANGED ctlVars

\* The caller of get_latest_signals writes a key into the mapping it received.
ClientWrites ==
    /\ fn.op = "mappings"
    /\ fn.got # << >>
    /\ "x" \notin Content(fn.got[1])
    /\ fn' = [fn EXCEPT !.heap = [fn.heap EXCEPT ![fn.got[1] + 1] = @ \cup {"x"}]]
    /\ UNCHANGED ctlVars

NextMappings ==
    \/ \E l \in Threads : MapCreate(l)
    \/ \E l \in Threads : MapFill(l)
    \/ \E l \in Threads : MapAssign(l)
    \/ \E l \in Threads : MapCallback(l)
    \/ GetLatest
    \/ ClientWrites

MappingSpec == InitMappings /\ [][NextMappings]_vars

(***************************************************************************)
(* GSMMonitorGUI: the Start and Stop buttons driving one GSMScanner.       *)
(* Caller "c1" is the Tk main thread, which runs start_scan and with it    *)
(* start_scanning; caller "c2" is the thread stop_scan creates to run      *)
(* _stop_scanner and with it stop_scanning.  fn holds the GUI's fields:    *)
(* is_scanning, and the number of _stop_scanner threads that were started  *)
(* and have not called stop_scanning yet.                                  *)
(***************************************************************************)
\* "interval=5  # Scan every 5 seconds", cut to the longest modelled wait.
GuiInterval == Min(5, MaxInterval)

InitGui ==
    /\ scanning = FALSE
    /\ scan_thread = 0
    /\ signals = EmptyMap
    /\ nthreads = 0
    /\ th = [t \in Threads |-> Unborn]
    /\ cl = [c \in AllCallers |-> IdleCaller]
    /\ stopCalled = FALSE
    /\ lastCall = "none"
    /\ afterStop = 0
    /\ callers = AllCallers
    /\ inputs = {}
    /\ fn = [op |-> "gui", is_scanning |-> FALSE, pending |-> 0]

\* start_scan: "if not self.is_scanning: self.is_scanning = True ...
\* self.scanner.start_scanning(callback=self.update_signal_display, interval=5)",
\* up to the entry of start_scanning.
GuiStartScan ==
    /\ fn.op = "gui"
    /\ ~fn.is_scanning
    /\ cl["c1"].pc = "idle"
    /\ nthreads < MaxThreads
    /\ fn' = [fn EXCEPT !.is_scanning = TRUE]
    /\ cl' = [cl EXCEPT !["c1"] = [IdleCaller EXCEPT !.pc = "start_check", !.cb = "cbA",
                                                     !.interval = GuiInterval]]
    /\ UNCHANGED << scanning, scan_thread, signals, nthreads, th, callers, inputs,
                    stopCalled, lastCall, afterStop >>

\* stop_scan: "if self.is_scanning: self.is_scanning = False ...
\* threading.Thread(target=self._stop_scanner, daemon=True).start()"
GuiStopScan ==
    /\ fn.op = "gui"
    /\ fn.is_scanning
    /\ cl["c1"].pc = "idle"
    /\ fn.pending = 0
    /\ fn' = [fn EXCEPT !.is_scanning = FALSE, !.pending = 1]
    /\ UNCHANGED ctlVars

\* _stop_scanner: "self.scanner.stop_scanning()", up to "self.scanning = False"
StopScannerRun ==
    /\ fn.op = "gui"
    /\ fn.pending > 0
    /\ cl["c2"].pc = "idle"
    /\ fn' = [fn EXCEPT !.pending = fn.pending - 1]
    /\ scanning' = FALSE
    /\ stopCalled' = TRUE
    /\ cl' = [cl EXCEPT !["c2"] = [IdleCaller EXCEPT !.pc = "stop_join",
                                                     !.idle0 = (Alive = {})]]
    /\ UNCHANGED << scan_thread, signals, nthreads, th, callers, inputs,
                    lastCall, afterStop >>

\* "callback(self.signals)" with update_signal_display, which hands the
\* update to the Tk loop with root.after(0, update) and returns.
GuiCallback(t) ==
    /\ Running(t, {"callback"})
    /\ th' = [th EXCEPT ![t].pc = "wait", ![t].i = 0, ![t].arg = << signals >>,
                        ![t].ncb = th[t].ncb + 1]
    /\ afterStop' = IF StopReturned THEN Min(afterStop + 1, MaxAfterStop) ELSE afterStop
    /\ UNCHANGED << scanning, scan_thread, signals, nthreads, cl, callers, inputs,
                    stopCalled, lastCall, fn >>

NextGui ==
    \/ GuiStartScan
    \/ GuiStopScan
    \/ StopScannerRun
    \/ \E c \in callers : StartCheck(c)
    \/ \E c \in callers : StartSet(c)
    \/ \E c \in callers : StartCreate(c)
    \/ \E c \in callers : StartRun(c)
    \/ \E c \in callers : StopJoin(c)
    \/ \E c \in callers : JoinDone(c)
    \/ \E c \in callers : JoinTimeout(c)
    \/ \E t \in Threads : LoopEntry(t)
    \/ \E t \in Threads : LoopTest(t)
    \/ \E t \in Threads : SweepBegin(t)
    \/ \E t \in Threads : SweepEnd(t)
    \/ \E t \in Threads : Aggregate(t)
    \/ \E t \in Threads : GuiCallback(t)
    \/ \E t \in Threads : WaitCheck(t)
    \/ \E t \in Threads : Sleep(t)

GuiSpec == InitGui /\ [][NextGui]_vars

(***************************************************************************)
(* GSMDetector (GSM_detector.py): scan_band called on its own, and         *)
(* full_scan.  The state of the call is kept in fn.  Frequencies are in    *)
(* 0.1 MHz; the bands keep their lower ends and are cut to MaxBandWidth.   *)
(***************************************************************************)
\* GSM_BANDS, in declaration order
GSM_BANDS ==
    << [name |-> "GSM-900",  start |-> 9350,  end |-> Min(9600, 9350 + MaxBandWidth)],
       [name |-> "GSM-1800", start |-> 18050, end |-> Min(18800, 18050 + MaxBandWidth)] >>

\* "step_size=200e3" of full_scan's scan_band calls
FullScanStep == 2

\* What one scan_frequency call can do: the read succeeds with some power
\* (calculate_power_db gives -120 for an all-zero read), the read raises an
\* Exception, or KeyboardInterrupt arrives during it.
ReadOutcomes == {"ok", "ok_silent", "fail", "interrupt"}

\* The call record before anything has run.
DetectorCall(op, start, end, step) ==
    [op |-> op, pc |-> IF op = "full_scan" THEN "init" ELSE "scan",
     start |-> start, end |-> end, step |-> step, freq |-> start,
     results |-> << >>, fails |-> {}, reads |-> 0, nbands |-> 0,
     sdr |-> IF op = "full_scan" THEN "none" ELSE "open",
     inited |-> op # "full_scan", closes |-> 0, exc |-> "none", ret |-> "none"]

InitDetector ==
    /\ InitNoCallers
    /\ fn \in { DetectorCall("scan_band", 9350, 9350 + w, s) :
                   w \in 0 .. MaxBandWidth, s \in 1 .. MaxStep }
              \cup { DetectorCall("full_scan", 0, 0, FullScanStep) }

\* initialize_sdr as called by full_scan: RtlSdr() raises (no device), or
\* the device opens and setting sample_rate or gain raises, or all succeed;
\* "if not self.initialize_sdr(): return None".
DetInitialize ==
    /\ fn.op = "full_scan" /\ fn.pc = "init"
    /\ \E out \in {"ok", "no_device", "config_fails"} :
         fn' = CASE out = "ok" ->
                      [fn EXCEPT !.sdr = "open", !.inited = TRUE, !.pc = "band"]
                 [] out = "no_device" ->
                      [fn EXCEPT !.pc = "done", !.ret = "None"]
                 [] out = "config_fails" ->
                      [fn EXCEPT !.sdr = "open", !.pc = "done", !.ret = "None"]
    /\ UNCHANGED ctlVars

\* "for band_name in GSM_BANDS.keys(): band_results = self.scan_band(...)",
\* up to the first loop test of scan_band; after the last band
\* "self.results = all_results; return all_results".
DetNextBand ==
    /\ fn.op = "full_scan" /\ fn.pc = "band"
    /\ fn' = IF fn.nbands < Len(GSM_BANDS)
             THEN [fn EXCEPT !.start = GSM_BANDS[fn.nbands + 1].start,
                             !.end = GSM_BANDS[fn.nbands + 1].end,
                             !.freq = GSM_BANDS[fn.nbands + 1].start,
                             !.results = << >>, !.pc = "scan"]
             ELSE [fn EXCEPT !.pc = "finally", !.ret = "results"]
    /\ UNCHANGED ctlVars

\* Variant: the loop test is "freq < band['downlink_end']".
DetLoopTestExclusive == fn.freq < fn.end

\* "while freq <= band['downlink_end']"
DetLoopTest == fn.freq <= fn.end

\* One iteration of scan_band: "power = self.scan_frequency(freq, duration);
\* results.append((freq, power)); freq += step_size".
DetScanFrequency ==
    /\ fn.pc = "scan" /\ DetLoopTest
    /\ \E out \in ReadOutcomes :
         fn' = IF out = "interrupt"
               THEN IF fn.op = "full_scan"
                    THEN [fn EXCEPT !.pc = "finally", !.exc = "KeyboardInterrupt",
                                    !.ret = "results", !.reads = fn.reads + 1]
                    ELSE [fn EXCEPT !.pc = "done", !.exc = "KeyboardInterrupt",
                                    !.ret = "raised", !.reads = fn.reads + 1]
               ELSE [fn EXCEPT !.results =
                                   Append(fn.results,
                                          << fn.freq,
                                             IF out = "ok" THEN -50 ELSE SilentPower >>),
                               !.fails = IF out = "fail" THEN fn.fails \cup {fn.freq}
                                         ELSE fn.fails,
                               !.reads = fn.reads + 1,
                               !.freq = fn.freq + fn.step]
    /\ UNCHANGED ctlVars

\* "return results" of scan_band.
DetScanBandReturn ==
    /\ fn.pc = "scan" /\ ~DetLoopTest
    /\ fn' = IF fn.op = "full_scan"
             THEN [fn EXCEPT !.pc = "analyze"]
             ELSE [fn EXCEPT !.pc = "done", !.ret = "results"]
    /\ UNCHANGED ctlVars

\* "operator_analysis = self.analyze_operators(band_results, band_name)" and
\* the prints of the band: they complete, or raise some Exception.
DetAnalyze ==
    /\ fn.op = "full_scan" /\ fn.pc = "analyze"
    /\ \E raises \in BOOLEAN :
         fn' = IF raises
               THEN [fn EXCEPT !.pc = "finally", !.exc = "Exception", !.ret = "raised"]
               ELSE [fn EXCEPT !.nbands = fn.nbands + 1, !.pc = "band"]
    /\ UNCHANGED ctlVars

\* Variant: the device is closed at the end of the try block, not in finally.
DetFinallyOnSuccessOnly ==
    /\ fn.op = "full_scan" /\ fn.pc = "finally"
    /\ fn' = IF fn.sdr # "none" /\ fn.exc = "none"
             THEN [fn EXCEPT !.sdr = "closed", !.closes = fn.closes + 1, !.pc = "done"]
             ELSE [fn EXCEPT !.pc = "done"]
    /\ UNCHANGED ctlVars

\* "finally: if self.sdr: self.sdr.close()"
DetFinally ==
    /\ fn.op = "full_scan" /\ fn.pc = "finally"
    /\ fn' = IF fn.sdr # "none"
             THEN [fn EXCEPT !.sdr = "closed", !.closes = fn.closes + 1, !.pc = "done"]
             ELSE [fn EXCEPT !.pc = "done"]
    /\ UNCHANGED ctlVars

NextDetector ==
    \/ DetInitialize
    \/ DetNextBand
    \/ DetScanFrequency
    \/ DetScanBandReturn
    \/ DetAnalyze
    \/ DetFinally

DetectorSpec == InitDetector /\ [][NextDetector]_vars

\* The running call keeps executing until it has returned or raised.
DetectorFairSpec == InitDetector /\ [][NextDetector]_vars /\ WF_vars(NextDetector)

(***************************************************************************)
(* GSMMonitorGUI.signal_history under update_graphs.  fn holds the two     *)
(* deques of every provider; a time stamp is "t", a power is "val" or      *)
(* "None".  update_signal_display calls update_graphs only with a          *)
(* non-empty mapping, on the Tk thread, one call at a time.                *)
(***************************************************************************)
\* The keys of self.signal_history
HistoryProviders == {"Orange", "Vodafone", "Telekom", "Digi"}

\* "deque(maxlen=50)", cut to MaxHistory
HistoryLen == Min(50, MaxHistory)

\* The key sets of the mappings the callback is given here.
CallbackKeySets == (SUBSET {"Orange", "Vodafone", "Unknown"}) \ {{}}

InitHistory ==
    /\ InitNoCallers
    /\ fn = [op |-> "history",
             times |-> [p \in HistoryProviders |-> << >>],
             powers |-> [p \in HistoryProviders |-> << >>],
             seen |-> {}]

\* deque.append with maxlen: the oldest entry is dropped from a full deque.
DequeAppend(q, x) == IF Len(q) < HistoryLen THEN Append(q, x) ELSE Append(Tail(q), x)

\* Variant: the placeholder is appended whether or not the history is empty.
HistoryAfterAlwaysPlaceholder(keys, p) ==
    IF p \in keys
    THEN [times |-> DequeAppend(fn.times[p], "t"), powers |-> DequeAppend(fn.powers[p], "val")]
    ELSE [times |-> DequeAppend(fn.times[p], "t"), powers |-> DequeAppend(fn.powers[p], "None")]

\* The body of "for provider in self.signal_history.keys()" for provider p.
HistoryAfter(keys, p) ==
    IF p \in keys
    THEN [times |-> DequeAppend(fn.times[p], "t"), powers |-> DequeAppend(fn.powers[p], "val")]
    ELSE IF Len(fn.times[p]) > 0
         THEN [times |-> DequeAppend(fn.times[p], "t"),
               powers |-> DequeAppend(fn.powers[p], "None")]
         ELSE [times |-> fn.times[p], powers |-> fn.powers[p]]

\* update_graphs(signals), signals having the keys `keys`.
UpdateGraphs(keys) ==
    /\ fn.op = "history"
    /\ fn' = [fn EXCEPT !.times = [p \in HistoryProviders |-> HistoryAfter(keys, p).times],
                        !.powers = [p \in HistoryProviders |-> HistoryAfter(keys, p).powers],
                        !.seen = fn.seen \cup keys]
    /\ UNCHANGED ctlVars

NextHistory == \E keys \in CallbackKeySets : UpdateGraphs(keys)

HistorySpec == InitHistory /\ [][NextHistory]_vars

(***************************************************************************)
(* Properties                                                              *)
(***************************************************************************)

\* C1: under any interleaving of start_scanning calls, also from two
\* threads at once, at most one scan loop thread is live.
C1_AtMostOneLiveLoop == Cardinality(Alive) <= 1

\* C2: once stop_scanning has returned (and no start_scanning has completed
\* since), the callback is invoked at most once more.
C2_AtMostOneCallbackAfterStop == afterStop <= 1

\* C3: when scan_with_rtl_power has returned, the temporary capture file it
\* created no longer exists, whatever the exit path.
C3_TmpFileDeletedOnReturn ==
    \A t \in Threads :
        th[t].pc \notin {"run900", "run1800"} => th[t].tmp # "exists"

\* C4: a scan loop thread has ended only if stop_scanning has been called.
C4_LoopEndsOnlyAfterStop ==
    \A t \in Threads : th[t].st = "dead" => stopCalled

\* C5: a loop thread in a cycle in which a sweep failed stays alive as long
\* as no stop has been requested (it goes on to the callback, the wait
\* phase and the next cycle).
C5_SweepFailureKeepsLoopAlive ==
    [][ \A t \in Threads :
          (IsAlive(t) /\ th[t].failed /\ ~stopCalled) => th'[t].st = "alive" ]_vars

\* C6: the start_scanning call that completes after a stop_scanning call has
\* returned is never a no-op: it launches a loop thread.
C6_StartAfterStopLaunches ==
    [][ (lastCall \in StopOutcomes /\ lastCall' \in StartOutcomes)
            => lastCall' = "start_launched" ]_vars

\* C7: start_scanning called while a loop thread is alive returns without
\* launching a thread and without touching the running loop (its callback,
\* interval and position), the flag or the thread reference; with calls
\* made one after the other there is never more than one live loop.
C7_StartWhileAliveIsNoOp ==
    /\ [](Cardinality(Alive) <= 1)
    /\ [][ \A c \in callers :
             (cl[c].pc = "start_check" /\ cl'[c].pc # "start_check" /\ Alive # {})
                => /\ cl'[c].pc = "idle"
                   /\ th' = th
                   /\ nthreads' = nthreads
                   /\ scan_thread' = scan_thread
                   /\ scanning' = scanning
                   /\ signals' = signals ]_vars

\* C7 witness: a start_scanning call has returned as a no-op while the loop
\* launched by an earlier call is running.
C7_Witness ==
    /\ lastCall = "start_noop"
    /\ \E t \in Threads : Running(t, {"sleep"}) /\ th[t].cb = "cbB" /\ th[t].interval = 2

\* C8: a stop_scanning call entered while no loop thread is alive changes
\* neither the stored aggregate nor any thread, creates no thread, does not
\* wait in join(), and leaves no loop thread alive.
C8_StopWhileIdleIsNoOp ==
    [][ \A c \in callers :
          /\ (cl[c].pc = "idle" /\ cl'[c].pc = "stop_join" /\ Alive = {})
                => /\ signals' = signals
                   /\ th' = th
                   /\ nthreads' = nthreads
                   /\ scan_thread' = scan_thread
          /\ (cl[c].pc = "stop_join" /\ cl[c].idle0 /\ cl'[c] # cl[c])
                => /\ cl'[c].pc = "idle"
                   /\ signals' = signals
                   /\ th' = th
                   /\ nthreads' = nthreads
                   /\ scan_thread' = scan_thread
                   /\ Alive = {} ]_vars

\* C8 witness: stop_scanning was entered after the previous loop had
\* exited, with a non-empty aggregate stored, and has returned.
C8_Witness ==
    /\ lastCall = "stop_idle"
    /\ scan_thread # 0
    /\ th[scan_thread].st = "dead"
    /\ signals # EmptyMap

\* C9: a loop thread that is past the callback of its cycle has invoked the
\* supplied callback exactly once in that cycle, with a mapping, and with
\* the empty mapping when both sweeps of the cycle returned no records.
C9_CallbackOncePerCycleWithAggregate ==
    \A t \in Threads :
        (Running(t, {"wait", "sleep"}) /\ CallbackGiven(t))
            => /\ th[t].ncb = 1
               /\ th[t].arg # << >>
               /\ (th[t].all = << >> => th[t].arg = << EmptyMap >>)

\* The declared intervals of table entry i that contain f (both ends
\* inclusive), read off the table independently of freq_to_provider.
Declares(i, f) ==
    \E j \in DOMAIN ROMANIAN_PROVIDERS[i].ranges :
        /\ ROMANIAN_PROVIDERS[i].ranges[j][1] <= f
        /\ f <= ROMANIAN_PROVIDERS[i].ranges[j][2]

\* C10 as stated: f inside a declared interval of operator P is classified
\* to P; f outside all intervals is classified "Unknown".
C10_InsideIntervalGivesThatOperator ==
    fn.op = "freq_to_provider"
        => /\ \A i \in DOMAIN ROMANIAN_PROVIDERS :
                Declares(i, fn.arg) => fn.res = ROMANIAN_PROVIDERS[i].provider
           /\ (\A i \in DOMAIN ROMANIAN_PROVIDERS : ~Declares(i, fn.arg))
                => fn.res = Unknown

\* C10 amended: f inside a declared interval of operator P, and inside no
\* interval of an operator declared before P, is classified to P; f outside
\* all intervals is classified "Unknown".
C10_InsideIntervalGivesFirstOperator ==
    fn.op = "freq_to_provider"
        => /\ \A i \in DOMAIN ROMANIAN_PROVIDERS :
                (Declares(i, fn.arg) /\ \A h \in 1 .. i - 1 : ~Declares(h, fn.arg))
                    => fn.res = ROMANIAN_PROVIDERS[i].provider
           /\ (\A i \in DOMAIN ROMANIAN_PROVIDERS : ~Declares(i, fn.arg))
                => fn.res = Unknown

\* C10 witness: 941.0 MHz, the end of Orange's interval and the start of
\* Vodafone's, has been classified, to Orange.
C10_Witness ==
    fn = [op |-> "freq_to_provider", arg |-> 9410, res |-> "Orange"]


\* C11: freq_to_provider returns the operator declared first among those
\* with an interval containing f (ends inclusive); a frequency inside
\* intervals of two operators is never classified to the later one.
C11_FirstDeclaredMatchWins ==
    fn.op = "freq_to_provider"
        => LET hits == { i \in DOMAIN ROMANIAN_PROVIDERS : Declares(i, fn.arg) }
           IN  /\ hits # {}
                    => fn.res = ROMANIAN_PROVIDERS[
                                   CHOOSE i \in hits : \A j \in hits : i <= j ].provider
               /\ \A i \in hits, j \in hits :
                    i < j => fn.res # ROMANIAN_PROVIDERS[j].provider

\* C11 witness: 1825.0 MHz, inside Orange's and Vodafone's GSM-1800
\* intervals, has been classified, to Orange.
C11_Witness ==
    fn = [op |-> "freq_to_provider", arg |-> 18250, res |-> "Orange"]


\* The sum of the powers of the records of sigs at the positions in idx.
RECURSIVE PowerSum(_, _)
PowerSum(sigs, idx) ==
    IF idx = {} THEN 0
    ELSE LET j == CHOOSE k \in idx : TRUE
         IN  sigs[j].power + PowerSum(sigs, idx \ {j})

\* C12: the keys of aggregate_by_provider(records) are exactly the labels
\* that occur in records ("Unknown" included, none for the empty list), and
\* each value is the arithmetic mean of the powers of the records with
\* that label (num/den = total/n, compared by cross-multiplication).
C12_KeysAreLabelsValuesAreMeans ==
    (fn.op = "aggregate_by_provider" /\ fn.done)
        => /\ DOMAIN fn.res = { fn.arg[j].provider : j \in DOMAIN fn.arg }
           /\ \A p \in DOMAIN fn.res :
                LET idx == { j \in DOMAIN fn.arg : fn.arg[j].provider = p }
                IN  /\ fn.res[p][2] > 0
                    /\ fn.res[p][1] * Cardinality(idx)
                         = PowerSum(fn.arg, idx) * fn.res[p][2]

\* C12 witness: three records, two of one operator with a non-integer mean
\* and one labelled "Unknown", have been aggregated.
C12_Witness ==
    /\ fn.op = "aggregate_by_provider" /\ fn.done
    /\ Len(fn.arg) = 3
    /\ DOMAIN fn.res = {"Orange", "Unknown"}
    /\ fn.res["Orange"] = << -105, 2 >>


\* The reorderings of a list: the list read through each bijection of its
\* positions.
Reorderings(sigs) ==
    { [j \in DOMAIN sigs |-> sigs[q[j]]] :
        q \in { f \in [DOMAIN sigs -> DOMAIN sigs] :
                  \A a, b \in DOMAIN sigs : f[a] = f[b] => a = b } }

\* C16: aggregate_by_provider gives the same mapping for every reordering of
\* the records it was called with.
C16_AggregateIgnoresOrder ==
    (fn.op = "aggregate_by_provider" /\ fn.done)
        => \A other \in Reorderings(fn.arg) : aggregate_by_provider(other) = fn.res

\* C16 witness: an aggregated list whose two records of one operator have
\* different powers and are separated by a record of another operator.
C16_Witness ==
    /\ fn.op = "aggregate_by_provider" /\ fn.done
    /\ Len(fn.arg) = 3
    /\ fn.arg[1].provider = fn.arg[3].provider
    /\ fn.arg[1].power # fn.arg[3].power
    /\ fn.arg[2].provider # fn.arg[1].provider


\* A row all of whose columns from "Hz low" on are numbers.
AllNumeric(row) ==
    /\ Len(row) >= 7
    /\ \A j \in 3 .. Len(row) : j # 6 => row[j].k = "num"

\* C13: no record returned by scan_with_rtl_power has power <= -60, and
\* when the tool succeeded every bin with power > -60 of a row whose
\* columns are all numeric is returned, at frequency low + index * step.
C13_NoiseFloorFilter ==
    (fn.op = "scan_with_rtl_power" /\ fn.done)
        => /\ \A j \in DOMAIN fn.res : ~(fn.res[j].power <= -60)
           /\ fn.outcome = "ok"
                => \A r \in DOMAIN fn.capture :
                     AllNumeric(fn.capture[r])
                       => \A b \in 7 .. Len(fn.capture[r]) :
                            fn.capture[r][b].v > -60
                              => \E j \in DOMAIN fn.res :
                                   /\ fn.res[j].power = fn.capture[r][b].v
                                   /\ fn.res[j].frequency
                                        = fn.capture[r][3].v
                                            + (b - 7) * fn.capture[r][5].v

\* C13 witness: a successful sweep over a file with a numeric row holding a
\* bin at exactly -60 and a bin at -59 has returned.
C13_Witness ==
    /\ fn.op = "scan_with_rtl_power" /\ fn.done /\ fn.outcome = "ok"
    /\ \E r \in DOMAIN fn.capture :
         /\ AllNumeric(fn.capture[r])
         /\ \E a, b \in 7 .. Len(fn.capture[r]) :
              fn.capture[r][a].v = -60 /\ fn.capture[r][b].v = -59
    /\ \E j \in DOMAIN fn.res : fn.res[j].power = -59

\* C14: a sweep whose tool exits non-zero, times out or is missing returns
\* the empty list and does not raise.
C14_ToolFailureGivesEmptyList ==
    (fn.op = "scan_with_rtl_power" /\ fn.done
        /\ fn.outcome \in {"nonzero", "timeout", "notfound"})
        => fn.res = << >> /\ ~fn.raised

\* C14 witness: the tool wrote rows with bins above the noise floor and then
\* exited non-zero; the call has returned.
C14_Witness ==
    /\ fn.op = "scan_with_rtl_power" /\ fn.done /\ fn.outcome = "nonzero"
    /\ \E r \in DOMAIN fn.capture : fn.capture[r] = RowScenario

\* C15: a successful sweep over the one row (935.0 MHz, step 0.2 MHz, powers
\* -70, -50, -55) returns exactly (935.2, -50) and (935.4, -55), both
\* "Orange", and their aggregate is {"Orange": -52.5}.
C15_ScenarioEndToEnd ==
    (fn.op = "scan_with_rtl_power" /\ fn.done /\ fn.outcome = "ok"
        /\ fn.capture = << RowScenario >>)
        => /\ Len(fn.res) = 2
           /\ fn.res[1].frequency = 9352 /\ fn.res[1].power = -50
           /\ fn.res[2].frequency = 9354 /\ fn.res[2].power = -55
           /\ fn.res[1].provider = "Orange" /\ fn.res[2].provider = "Orange"
           /\ fn.aggdone
                => /\ DOMAIN fn.agg = {"Orange"}
                   /\ fn.agg["Orange"] = << -105, 2 >>

\* C15 witness: the scenario row has been swept and aggregated.
C15_Witness ==
    /\ fn.op = "scan_with_rtl_power" /\ fn.outcome = "ok"
    /\ fn.capture = << RowScenario >>
    /\ fn.done /\ fn.aggdone


\* C17: a loop thread that is alive when stop_scanning has been called, with
\* no start_scanning call after it, eventually exits (or start_scanning is
\* called after all).
C17_LoopExitsAfterStop ==
    \A t \in Threads :
        (/\ IsAlive(t)
         /\ StopReturned \/ \E c \in callers : cl[c].pc \in {"stop_join", "joining"}
         /\ ~\E c \in callers : InStart(c))
          ~> (\/ ~IsAlive(t)
              \/ \E c \in callers : InStart(c)
              \/ lastCall \in StartOutcomes)

\* C18: a stop_scanning call that has been entered returns, whatever the
\* loop thread does or fails to do.
C18_StopAlwaysReturns ==
    \A c \in AllCallers :
        (cl[c].pc \in {"stop_join", "joining"}) ~> (cl[c].pc = "idle")

\* C18 witness: stop_scanning has returned through the join timeout while
\* the loop thread is still inside the sweep of the first band.
C18_Witness ==
    /\ lastCall = "stop_timeout"
    /\ \A c \in callers : cl[c].pc = "idle"
    /\ \E t \in Threads : Running(t, {"run900"})


\* C19: while the flag is cleared and loop thread t is in its wait phase (or
\* at the loop test that follows it), the flag stays cleared and t moves
\* only within the wait and on to its exit: it starts no sweep, invokes no
\* callback, begins no new one-second sleep (a sleep under way is the only
\* tick left), and the loop test ends the thread.
C19_StopDuringWait ==
    [][\A t \in Threads :
         (~scanning /\ Running(t, {"wait", "sleep", "while"}))
           => /\ ~scanning'
              /\ th'[t].ncb = th[t].ncb \/ th'[t] = Dead
              /\ th[t].pc = "sleep"
                   => th'[t] = th[t]
                        \/ (th'[t].pc = "wait" /\ th'[t].i = th[t].i + 1)
              /\ th[t].pc = "wait" => th'[t] = th[t] \/ th'[t].pc = "while"
              /\ th[t].pc = "while" => th'[t] = th[t] \/ th'[t] = Dead]_vars

\* C19 witness: the flag was cleared during the first of two one-second
\* sleeps of the wait phase.
C19_Witness ==
    \E t \in Threads :
        /\ Running(t, {"sleep"}) /\ ~scanning /\ stopCalled
        /\ th[t].interval = 2 /\ th[t].i = 0

\* C20: with the flag cleared, a loop thread that is inside a cycle goes on
\* in program order: first-band sweep, second-band sweep, aggregation,
\* callback, wait; no step before the wait ends the thread or returns to
\* the loop test, except a callback that raises.
C20_StopMidSweepCompletesCycle ==
    [][\A t \in Threads :
         (~scanning /\ th'[t] # th[t]
              /\ Running(t, {"scan900", "run900", "scan1800", "run1800",
                             "aggregate", "callback"}))
           => /\ th[t].pc = "scan900" => th'[t].pc \in {"run900", "scan1800"}
              /\ th[t].pc = "run900" => th'[t].pc = "scan1800"
              /\ th[t].pc = "scan1800" => th'[t].pc \in {"run1800", "aggregate"}
              /\ th[t].pc = "run1800" => th'[t].pc = "aggregate"
              /\ th[t].pc = "aggregate"
                   => th'[t].pc = "callback" /\ signals' = aggregate_by_provider(th[t].all)
              /\ th[t].pc = "callback"
                   => \/ th'[t].pc = "wait"
                            /\ (th[t].cb # None => th'[t].arg = << signals >>)
                      \/ th[t].cb # None /\ th'[t] = Dead]_vars

\* C20 witness: stop_scanning returned through the join timeout, and
\* afterwards, the flag still cleared, the thread has invoked the callback
\* with the aggregate of the cycle's sweeps and is in its wait phase.
C20_Witness ==
    \E t \in Threads :
        /\ Running(t, {"wait"}) /\ ~scanning
        /\ lastCall = "stop_timeout" /\ afterStop = 1
        /\ th[t].all # << >> /\ th[t].arg = << aggregate_by_provider(th[t].all) >>


\* The order of one cycle: the second-band sweep starts only from the
\* return of the first-band sweep, and the callback is reached only
\* through the aggregation that follows the return of the second-band sweep.
C21_SweepOrder ==
    [][\A t \in Threads :
         (IsAlive(t) /\ th'[t].pc # th[t].pc)
           => /\ th'[t].pc = "scan1800" => th[t].pc \in {"scan900", "run900"}
              /\ th'[t].pc = "run1800" => th[t].pc = "scan1800"
              /\ th'[t].pc = "aggregate" => th[t].pc \in {"scan1800", "run1800"}
              /\ th'[t].pc = "callback" => th[t].pc = "aggregate"]_vars

\* C21: a loop thread that has invoked the callback of its cycle passed it
\* the aggregate of that cycle's records (first band, then second band).
C21_CallbackGetsOwnCycleAggregate ==
    \A t \in Threads :
        (Running(t, {"wait", "sleep"}) /\ CallbackGiven(t))
            => th[t].arg = << aggregate_by_provider(th[t].all) >>


\* f is the low or the high end of a declared interval of table entry i.
IsEndPoint(i, f) ==
    \E j \in DOMAIN ROMANIAN_PROVIDERS[i].ranges :
        f = ROMANIAN_PROVIDERS[i].ranges[j][1] \/ f = ROMANIAN_PROVIDERS[i].ranges[j][2]

\* C22 as stated: no frequency lies inside declared intervals (ends
\* inclusive) of two different operators.
C22_NoFrequencyInTwoOperators ==
    fn.op = "freq_to_provider"
        => \A i, j \in DOMAIN ROMANIAN_PROVIDERS :
             (Declares(i, fn.arg) /\ Declares(j, fn.arg)) => i = j

\* C22 amended: a frequency inside declared intervals of two different
\* operators is an end point of an interval of each of them, and no
\* frequency is inside intervals of three operators.
C22_OperatorsShareOnlyEndPoints ==
    fn.op = "freq_to_provider"
        => /\ \A i, j \in DOMAIN ROMANIAN_PROVIDERS :
                (i # j /\ Declares(i, fn.arg) /\ Declares(j, fn.arg))
                    => IsEndPoint(i, fn.arg) /\ IsEndPoint(j, fn.arg)
           /\ Cardinality({ i \in DOMAIN ROMANIAN_PROVIDERS : Declares(i, fn.arg) }) <= 2

\* C22 witness: 948.0 MHz, the end point shared by Vodafone and Telekom,
\* has been looked up.
C22_Witness ==
    /\ fn.op = "freq_to_provider" /\ fn.arg = 9480
    /\ Cardinality({ i \in DOMAIN ROMANIAN_PROVIDERS : Declares(i, fn.arg) }) = 2


\* A malformed row: fewer than 7 fields, or a frequency or step column that
\* is not a number, or a power column that is neither empty nor a number.
Malformed(row) ==
    \/ Len(row) < 7
    \/ \E j \in 3 .. 5 : row[j].k # "num"
    \/ \E j \in 7 .. Len(row) : row[j].k = "txt"

\* C23: after a successful sweep the returned records are those of the
\* capture with its malformed rows left out; in particular a capture of
\* malformed rows and the scenario row returns exactly the scenario row's
\* two records, and a capture of malformed rows only returns nothing.
C23_MalformedRowContributesNothing ==
    (fn.op = "scan_with_rtl_power" /\ fn.done /\ fn.outcome = "ok")
        => /\ fn.res = ParseCapture(SelectSeq(fn.capture, LAMBDA row : ~Malformed(row)))
           /\ (\A r \in DOMAIN fn.capture :
                  Malformed(fn.capture[r]) \/ fn.capture[r] = RowScenario)
                => IF \E r \in DOMAIN fn.capture : fn.capture[r] = RowScenario
                   THEN /\ Len(fn.res) = 2
                        /\ fn.res[1].frequency = 9352 /\ fn.res[1].power = -50
                        /\ fn.res[2].frequency = 9354 /\ fn.res[2].power = -55
                   ELSE fn.res = << >>

\* C23 witness: a successful sweep over a row whose first power field is a
\* bin above the noise floor and whose second is not a number, followed by
\* the scenario row, has returned.
C23_Witness ==
    /\ fn.op = "scan_with_rtl_power" /\ fn.done /\ fn.outcome = "ok"
    /\ Len(fn.capture) = 2 /\ fn.capture[2] = RowScenario
    /\ Len(fn.capture[1]) >= 8
    /\ fn.capture[1][5] = Num(2)
    /\ fn.capture[1][7] = Num(-59) /\ fn.capture[1][8] = Txt


\* C24: after a successful sweep, every power field above the noise floor of
\* a row the parser accepts is returned paired with the frequency
\* low + k * step, k being the position of the field among the row's power
\* columns (0 for the column after the sample count).
C24_BinFrequencyByFieldPosition ==
    (fn.op = "scan_with_rtl_power" /\ fn.done /\ fn.outcome = "ok")
        => \A r \in DOMAIN fn.capture :
             ~Malformed(fn.capture[r])
               => \A b \in 7 .. Len(fn.capture[r]) :
                    (fn.capture[r][b].k = "num" /\ fn.capture[r][b].v > -60)
                      => \E j \in DOMAIN fn.res :
                           /\ fn.res[j].power = fn.capture[r][b].v
                           /\ fn.res[j].frequency
                                = fn.capture[r][3].v + (b - 7) * fn.capture[r][5].v


\* C25: no mapping object is passed to the callback in two different cycles,
\* and the scanner writes into no mapping that it has passed to a callback.
C25_FreshMappingPerCycle ==
    fn.op = "mappings"
        => /\ \A a, b \in fn.passed : a.obj = b.obj => a = b
           /\ fn.touched = {}

\* C25 restricted to one live loop.
C25_FreshMappingPerCycleOfOneLoop == fn.n = 1 => C25_FreshMappingPerCycle


\* C27 as stated: get_latest_signals returns the empty mapping while no
\* callback has been invoked yet, and afterwards the content of the mapping
\* most recently passed to the callback (one live loop).
C27_GetReturnsLastPassedAggregate ==
    [][(fn.op = "mappings" /\ fn.n = 1 /\ fn'.got # fn.got)
         => fn'.gotval = IF fn.last = << >> THEN {} ELSE Content(fn.last[1])]_vars

\* C27 amended: get_latest_signals returns, in a new object, the content of
\* the mapping most recently stored in self.signals (the empty mapping
\* before the first store), which the callback of that cycle has received
\* or is about to; no key written by a client into a returned mapping is
\* ever in self.signals or in a mapping returned later.
C27_GetReturnsCopyOfLastStoredAggregate ==
    /\ [](fn.op = "mappings"
            => /\ "x" \notin Content(fn.sig)
               /\ fn.got # << >>
                    => /\ fn.got[1] # fn.sig
                       /\ fn.got[1] \notin PassedObjects
                       /\ "x" \notin fn.gotval)
    /\ [][(fn.op = "mappings" /\ fn'.got # fn.got)
            => /\ fn'.gotval = IF fn.stored = << >> THEN {}
                               ELSE Content(fn.stored[1])
               /\ fn'.heap[fn'.got[1] + 1] = fn'.gotval]_vars

\* C27 witness: a client has written into a mapping it was given, and a
\* later get_latest_signals call has returned the stored aggregate, which
\* has not been passed to the callback yet.
C27_Witness ==
    /\ fn.op = "mappings" /\ fn.n = 1
    /\ \E o \in 0 .. fn.next - 1 : "x" \in Content(o)
    /\ fn.got # << >> /\ fn.gotval = {"avg"}
    /\ fn.pc[1] = "callback" /\ fn.last = << >>


\* C26: while the GUI's is_scanning is True, a scanner loop thread is alive
\* or start_scanning is on its way to start one.
C26_GuiScanningMeansLoopLive ==
    (fn.op = "gui" /\ fn.is_scanning)
        => \/ \E t \in Threads : IsAlive(t)
           \/ InStart("c1")


\* C28: a full_scan that has ended after a successful initialization has
\* closed the device exactly once, whether it ended normally, on
\* KeyboardInterrupt or on another exception; one whose initialization
\* failed returned None and read no frequency.
C28_DeviceClosedOnceOnEveryExit ==
    (fn.op = "full_scan" /\ fn.pc = "done")
        => /\ fn.inited => fn.closes = 1 /\ fn.sdr = "closed"
           /\ ~fn.inited => fn.ret = "None" /\ fn.reads = 0 /\ fn.nbands = 0

\* C28 witness: a full_scan interrupted by KeyboardInterrupt inside the
\* second band has ended.
C28_Witness ==
    /\ fn.op = "full_scan" /\ fn.pc = "done"
    /\ fn.exc = "KeyboardInterrupt" /\ fn.nbands = 1 /\ fn.closes = 1

\* C29: a scan_band call with a positive step ends; when it returns, its
\* result lists, in ascending order and once each, exactly the frequencies
\* start + k*step that are <= end, and the power listed for a frequency
\* whose read failed is -120.
C29_ScanBandCoversBandInSteps ==
    /\ [](fn.op = "scan_band" /\ fn.pc = "done" /\ fn.ret = "results"
            => /\ Len(fn.results) = ((fn.end - fn.start) \div fn.step) + 1
               /\ \A k \in DOMAIN fn.results :
                    /\ fn.results[k][1] = fn.start + (k - 1) * fn.step
                    /\ fn.results[k][1] <= fn.end
                    /\ fn.results[k][1] \in fn.fails => fn.results[k][2] = -120)
    /\ (fn.op = "scan_band") ~> (fn.pc = "done")

\* C29 witness: a scan_band call over a band whose upper end is a whole
\* number of steps above the lower end has returned three points, the
\* read of the middle one having failed.
C29_Witness ==
    /\ fn.op = "scan_band" /\ fn.pc = "done" /\ fn.ret = "results"
    /\ fn.step = 2 /\ fn.end = fn.start + 4
    /\ Len(fn.results) = 3 /\ fn.fails = {fn.start + 2}


\* C30: in the GUI's signal history every provider's times and powers have
\* the same length, at most 50 (and at most the deques' maxlen), and the
\* history of a provider that was in no callback mapping so far is empty.
C30_HistoryLengthsAndNoEarlyPlaceholder ==
    fn.op = "history"
        => \A p \in HistoryProviders :
             /\ Len(fn.times[p]) = Len(fn.powers[p])
             /\ Len(fn.times[p]) <= 50 /\ Len(fn.times[p]) <= HistoryLen
             /\ p \notin fn.seen => fn.times[p] = << >> /\ fn.powers[p] = << >>

\* C30 witness: Orange's history is full and holds a placeholder, Vodafone
\* was detected later than Orange, Telekom never.
C30_Witness ==
    /\ fn.op = "history"
    /\ Len(fn.powers["Orange"]) = HistoryLen
    /\ \E k \in DOMAIN fn.powers["Orange"] : fn.powers["Orange"][k] = "None"
    /\ Len(fn.powers["Vodafone"]) = 1
    /\ "Telekom" \notin fn.seen /\ "Unknown" \in fn.seen

====
